---- MODULE Spec2Model ----
(***************************************************************************)
(* Verification model of the Hotel-Kiosk-AI voice pipeline:                *)
(*   - VADFilter + MicListenerAdapter._capture_loop (voice segmentation)   *)
(*   - AssistantService._stream_distributor / _queue_gen (stream fan-out)  *)
(*   - CommandBus._execute_with_fallback / _execute_stream_with_fallback   *)
(*   - CircuitBreaker and the guarded adapter call                         *)
(*   - AssistantService.process_audio (tiering, empty transcript)          *)
(*   - AssistantService._process_llm_stream (tool-call interception)       *)
(*   - HotelKioskApp.run_interactive_mode (capture, turn, restart)         *)
(* Each component has its own specification over the shared variables.     *)
(***************************************************************************)
EXTENDS Integers, Sequences, FiniteSets, TLC

VARIABLES
    \* ---- VADFilter / MicListenerAdapter ----
    is_listening,        \* MicListenerAdapter.is_listening
    speech_frames,       \* VADFilter.speech_frames, deque(maxlen=min_speech_frames)
    vad_silence_frames,  \* VADFilter.silence_frames
    speech_detected,     \* VADFilter.speech_detected
    silence_frames,      \* local silence_frames of _capture_loop
    audio_buffer,        \* MicListenerAdapter.audio_buffer (sequence of chunks)
    lastEvent,           \* callback invoked by the last step: "none"|"audio"|"close"
    lastChunk,           \* classification handled by the last step: "speech"|"silence"|"none"
    silRun,              \* consecutive silence chunks handled by the running capture loop
    sent,                \* chunks passed to on_audio_chunk since the last close / start
    preArmBuffered,      \* chunks that were in audio_buffer when the threshold was reached
    armedSpeech,         \* speech chunks received since the threshold was reached
    utterance,           \* what had been accumulated when the last step emitted the close
    armedInSession,      \* the threshold was reached since the last start_listening / close
    \* ---- stream fan-out ----
    source,              \* the chunks the audio source will produce
    srcFails,            \* TRUE when reading the source raises after the last chunk
    distPc,              \* position of _stream_distributor
    srcPos,              \* number of chunks read from the source
    stt_queue,           \* asyncio.Queue of the transcription branch
    affect_queue,        \* asyncio.Queue of the affect branch
    received,            \* per branch: chunks yielded by _queue_gen
    ended,               \* per branch: _queue_gen has terminated
    \* ---- CommandBus failover ----
    chain,               \* behaviour of each provider of the chain
    stalled,             \* providers that, their units yielded, neither end nor raise
    busMode,             \* "call" (_execute_with_fallback) | "stream"
    busPc,               \* "idle" | "run" | "returned" | "raised"
    busIdx,              \* loop index i (1-based)
    busPos,              \* units yielded so far by the current provider
    errors,              \* the errors list
    delivered,           \* units delivered to the consumer / returned result
    attempts,            \* providers invoked so far, in order
    \* ---- CircuitBreaker and guarded calls ----
    failure_threshold,   \* CircuitBreaker.failure_threshold
    cbState,             \* CircuitBreaker.state
    failure_count,       \* CircuitBreaker.failure_count
    last_failure_time,   \* CircuitBreaker.last_failure_time (-1 = None)
    now,                 \* time.time()
    callPc,              \* per caller: "idle" | "inflight" | "probe" (admitted in HALF_OPEN)
    lastCall,            \* outcome of the last guarded-call step
    consecFailures,      \* record_failure calls since the last record_success (saturating)
    \* ---- AssistantService.process_audio ----
    turnPc,              \* position inside process_audio
    final_text,          \* final_text of _proactive_pipeline (last partial transcript)
    rag_triggered,       \* _proactive_pipeline.rag_triggered
    nPartials,           \* partial transcripts received so far
    quick_chunks,        \* quick_response_chunks
    omega1Calls,         \* generation requests issued without tools
    omega2Calls,         \* generation requests issued with tools
    kbCalls,             \* knowledge lookups issued
    ttsText,             \* text handed to _quick_tts_stream ("" = none)
    retText,             \* first component of the returned tuple
    firstLong,           \* first partial received with >= 4 words (<<>>: none yet)
    kbState,             \* the knowledge lookup: "none"|"inflight"|"resolved"
    kbQuery,             \* query_text of the lookup issued
    affectState,         \* affect_task: "running"|"resolved"
    emotional_state,     \* its result ("none" until resolved)
    conversation,        \* Conversation.messages
    omega1Req,           \* the OMEGA-1 request as issued
    omega2Req,           \* the OMEGA-2 request as issued
    streamPc,            \* _process_llm_stream: "none"|"open"|"ended"|"failed"
    full_response_text,  \* units yielded by _process_llm_stream so far
    audioDone,           \* the quick synthesis stream was consumed to its end
    logCalls,            \* LogInteractionCommand tasks created
    \* --- OMEGA-2 response: lazy text stream fed to the synthesis chain ----
    tts_chain,           \* per synthesis provider: does its synthesize raise
    textLen,             \* units the generation stream yields before it stops
    textFails,           \* the generation stream then raises (chain exhausted)
    textPos,             \* units of text_stream consumed so far
    textDone,            \* the text_stream generator has ended or raised
    synPc,               \* "idle"|"next"|"collect"|"speak"|"returned"|"raised"
    synIdx,              \* index of the synthesis provider in use (1-based)
    full_text,           \* text accumulated by the provider in use
    audio,               \* audio chunks delivered to the consumer
    synErrors,           \* errors list of the synthesis invocation
    \* --- retry_async around a breaker-guarded adapter method -------------
    max_retries,         \* decorator argument
    retryPc,             \* "idle"|"attempt"|"sleep"|"returned"|"raised"
    attempt,             \* loop variable of the wrapper (0-based)
    delay,               \* current delay in milliseconds
    last_exception,      \* attempt whose exception is held (-1: None)
    invocations,         \* times func was invoked by the running wrapped call
    waits,               \* asyncio.sleep calls of the running wrapped call
    failedAttempts,      \* invocations of the running wrapped call that raised
    retResult,           \* attempt whose result was returned (-1: none)
    countAtStart,        \* failure_count when the running wrapped call began
    nCalls,              \* wrapped calls started so far
    \* --- _process_llm_stream: tool-call interception -----------------------
    llm_units,           \* the units llm_stream will produce
    unitPos,             \* units of llm_stream handled so far
    function_call_detected, \* _process_llm_stream.function_call_detected
    last_booking,        \* context.state has the key "last_booking"
    bookingsSaved,       \* bookings the repository port has persisted
    \* --- run_interactive_mode ---------------------------------------------
    loopPc,              \* "poll"|"process"|"play"|"finally"
    silence_detected,    \* flag set by on_silence_detected
    captured_audio,      \* chunks accumulated by on_audio_chunk (0: None)
    turnsStarted,        \* turns whose processing has begun
    turnPhase            \* per turn: "none"|"processing"|"playing"|"ended"

vadVars == <<is_listening, speech_frames, vad_silence_frames, speech_detected,
             silence_frames, audio_buffer, lastEvent, lastChunk, silRun, sent,
             preArmBuffered, armedSpeech, utterance, armedInSession>>
fanVars == <<source, srcFails, distPc, srcPos, stt_queue, affect_queue, received, ended>>
busVars == <<chain, stalled, busMode, busPc, busIdx, busPos, errors, delivered, attempts>>
cbVars == <<failure_threshold, cbState, failure_count, last_failure_time, now,
            callPc, lastCall, consecFailures>>
tText == <<final_text, nPartials, firstLong>>
tKb == <<rag_triggered, kbCalls, kbState, kbQuery>>
tAffect == <<affectState, emotional_state>>
tGen == <<quick_chunks, omega1Calls, omega2Calls, omega1Req, omega2Req>>
tOut == <<ttsText, retText, audioDone>>
tResp == <<streamPc, full_response_text, logCalls>>
turnVars == <<turnPc, tText, tKb, tAffect, tGen, tOut, tResp, conversation>>
synVars == <<tts_chain, textLen, textFails, textPos, textDone, synPc, synIdx,
             full_text, audio, synErrors>>
rtVars == <<max_retries, retryPc, attempt, delay, last_exception, invocations,
            waits, failedAttempts, retResult, countAtStart, nCalls>>
toolVars == <<llm_units, unitPos, function_call_detected, last_booking, bookingsSaved>>
loopVars == <<loopPc, silence_detected, captured_audio, turnsStarted, turnPhase>>
vars == <<vadVars, fanVars, busVars, cbVars, turnVars, synVars, rtVars, toolVars, loopVars>>

(***************************************************************************)
(* Voice segmentation                                                      *)
(***************************************************************************)
min_speech_frames == 5
sample_rate == 16000
chunk_size == 1024
silence_timeout_ms == 750
frame_duration_ms == 30

\* VADFilter.__init__: samples per VAD frame
frame_size == (sample_rate * frame_duration_ms) \div 1000

\* VADFilter.is_speech: number of frames a chunk of chunk_size samples is cut into
FramesPerChunk == ((chunk_size * 2) + (frame_size * 2) - 1) \div (frame_size * 2)

\* _capture_loop: int((silence_timeout_ms / 1000.0) * sample_rate / chunk_size)
max_silence_frames == (silence_timeout_ms * sample_rate) \div (1000 * chunk_size)

\* bounds of the segmentation model
MaxBuffer == 6
MaxVadSilence == 13
ChunkValues == 1..2

\* record of the accumulated audio at a close event (empty outside close steps)
NoUtterance == [buf |-> <<>>, sent |-> <<>>, preArm |-> 0, armedSpeech |-> 0]

\* deque(maxlen=n).append(x)
DequeAppend(d, x, n) ==
    IF Len(d) < n THEN Append(d, x) ELSE Append(SubSeq(d, 2, Len(d)), x)

\* VADFilter.is_speech, frame loop: speech as soon as one frame is speech
IsSpeechDetected(frames) == \E i \in DOMAIN frames : frames[i]

VadInit ==
    /\ is_listening = TRUE
    /\ speech_frames = <<>>
    /\ vad_silence_frames = 0
    /\ speech_detected = FALSE
    /\ silence_frames = 0
    /\ audio_buffer = <<>>
    /\ lastEvent = "none"
    /\ lastChunk = "none"
    /\ silRun = 0
    /\ sent = <<>>
    /\ preArmBuffered = 0
    /\ armedSpeech = 0
    /\ utterance = NoUtterance
    /\ armedInSession = FALSE

\* VADFilter.is_speech: if len(self.speech_frames) == self.min_speech_frames,
\* inside the branch of a chunk classified as speech
ThresholdReached(det, window) == det /\ Len(window) = min_speech_frames

\* VADFilter.is_speech, state update of speech_detected
SpeechDetectedAfter(det, window, sd) ==
    IF ThresholdReached(det, window) THEN TRUE ELSE sd

\* _capture_loop: the close-detection counter after one chunk
SilenceCountNoGuard(det, sd, sil) == IF det THEN 0 ELSE sil + 1
SilenceCountAfter(det, sd, sil) ==
    IF det THEN 0 ELSE IF sd THEN sil + 1 ELSE sil

\* _capture_loop: if silence_frames > max_silence_frames
SilenceTimeoutVadCounter(sil) == vad_silence_frames > max_silence_frames
SilenceTimeout(sil) == sil > max_silence_frames

\* VADFilter.reset: self.speech_detected = False
DetectedAfterResetKept(sd) == sd
DetectedAfterReset(sd) == FALSE

\* _capture_loop: if has_speech: self.audio_buffer.extend(chunk)
BufferAfterArmedOnly(det, sd, buf, chunk) == IF det /\ sd THEN Append(buf, chunk) ELSE buf
BufferAfter(det, sd, buf, chunk) == IF det THEN Append(buf, chunk) ELSE buf

\* One iteration of _capture_loop for a chunk that was read from the queue:
\* vad.is_speech(chunk), buffering / counting, timeout check and reset.
CaptureChunk(chunk, frames) ==
    LET det == IsSpeechDetected(frames)
        window == DequeAppend(speech_frames, det, min_speech_frames)
        sd == SpeechDetectedAfter(det, window, speech_detected)
        sil == SilenceCountAfter(det, sd, silence_frames)
        buf == BufferAfter(det, sd, audio_buffer, chunk)
        arming == ~speech_detected /\ sd
        reached == ThresholdReached(det, window)
    IN  /\ is_listening
        /\ det => Len(audio_buffer) < MaxBuffer
        /\ ~det => vad_silence_frames < MaxVadSilence
        /\ IF SilenceTimeout(sil)
             THEN /\ lastEvent' = "close"
                  /\ speech_frames' = <<>>
                  /\ vad_silence_frames' = 0
                  /\ speech_detected' = DetectedAfterReset(sd)
                  /\ audio_buffer' = <<>>
                  /\ silence_frames' = 0
                  /\ silRun' = 0
                  /\ sent' = <<>>
                  /\ preArmBuffered' = 0
                  /\ armedSpeech' = 0
                  /\ utterance' = [buf |-> buf, sent |-> sent,
                                    preArm |-> preArmBuffered, armedSpeech |-> armedSpeech]
                  /\ armedInSession' = FALSE
             ELSE /\ lastEvent' = IF det THEN "audio" ELSE "none"
                  /\ speech_frames' = window
                  /\ vad_silence_frames' = IF det THEN 0 ELSE vad_silence_frames + 1
                  /\ speech_detected' = sd
                  /\ audio_buffer' = buf
                  /\ silence_frames' = sil
                  /\ silRun' = IF det THEN 0 ELSE silRun + 1
                  /\ sent' = IF det THEN Append(sent, chunk) ELSE sent
                  /\ preArmBuffered' = IF arming THEN Len(audio_buffer) ELSE preArmBuffered
                  /\ armedSpeech' = IF sd /\ det THEN armedSpeech + 1 ELSE armedSpeech
                  /\ utterance' = NoUtterance
                  /\ armedInSession' = (armedInSession \/ reached)
        /\ lastChunk' = IF det THEN "speech" ELSE "silence"
        /\ UNCHANGED is_listening

\* MicListenerAdapter.stop_listening: self.is_listening = False
ListeningAfterStopKept(l) == l
ListeningAfterStop(l) == FALSE

\* MicListenerAdapter.stop_listening: the capture thread leaves its loop
StopListening ==
    /\ is_listening
    /\ is_listening' = ListeningAfterStop(is_listening)
    /\ lastEvent' = "none"
    /\ lastChunk' = "none"
    /\ utterance' = NoUtterance
    /\ UNCHANGED <<speech_frames, vad_silence_frames, speech_detected,
                   silence_frames, audio_buffer, silRun, sent, preArmBuffered,
                   armedSpeech, armedInSession>>

\* MicListenerAdapter.start_listening: a new _capture_loop starts
StartListening ==
    /\ ~is_listening
    /\ is_listening' = TRUE
    /\ audio_buffer' = <<>>
    /\ silence_frames' = 0
    /\ lastEvent' = "none"
    /\ lastChunk' = "none"
    /\ silRun' = 0
    /\ sent' = <<>>
    /\ preArmBuffered' = 0
    /\ armedSpeech' = 0
    /\ utterance' = NoUtterance
    /\ armedInSession' = FALSE
    /\ UNCHANGED <<speech_frames, vad_silence_frames, speech_detected>>

VadCapture ==
    \E chunk \in ChunkValues, frames \in [1..FramesPerChunk -> BOOLEAN] :
        CaptureChunk(chunk, frames)

VadNext ==
    /\ \/ VadCapture
       \/ StopListening
       \/ StartListening
    /\ UNCHANGED <<fanVars, busVars, cbVars, turnVars, synVars, rtVars, toolVars, loopVars>>

(***************************************************************************)
(* Stream fan-out: _stream_distributor feeding two _queue_gen consumers    *)
(***************************************************************************)
MaxSrc == 3
SrcValues == 1..2
NoneItem == 0
Branches == {"stt", "affect"}

SeqsUpTo(S, n) == UNION {[1..k -> S] : k \in 0..n}

IsPrefix(s, t) == Len(s) <= Len(t) /\ SubSeq(t, 1, Len(s)) = s

\* asyncio.Queue.put on an unbounded FIFO queue
QueuePutFront(q, item) == <<item>> \o q
QueuePut(q, item) == Append(q, item)

FanFresh ==
    /\ distPc = "read"
    /\ srcPos = 0
    /\ stt_queue = <<>>
    /\ affect_queue = <<>>
    /\ received = [b \in Branches |-> <<>>]
    /\ ended = [b \in Branches |-> FALSE]

FanInit ==
    /\ source \in SeqsUpTo(SrcValues, MaxSrc)
    /\ srcFails \in BOOLEAN
    /\ FanFresh

FanIdle ==
    /\ source = <<>>
    /\ srcFails = FALSE
    /\ FanFresh

\* the branch queue of a branch, and what it holds
BranchQueue(b) == IF b = "stt" THEN stt_queue ELSE affect_queue
ChunksHeld(b) == Cardinality({i \in 1..Len(BranchQueue(b)) : BranchQueue(b)[i] # NoneItem})
SentinelsHeld(b) == Cardinality({i \in 1..Len(BranchQueue(b)) : BranchQueue(b)[i] = NoneItem})

\* where _stream_distributor continues when the source stops: after the loop,
\* or in the except Exception branch when reading the source raised
AfterSourceEndNoExcept(fails) == IF fails THEN "done" ELSE "end_stt"
AfterSourceEnd(fails) == IF fails THEN "exc_stt" ELSE "end_stt"

\* async for chunk in audio_stream: next chunk, normal end, or exception
DistRead ==
    /\ distPc = "read"
    /\ IF srcPos < Len(source)
         THEN /\ srcPos' = srcPos + 1
              /\ distPc' = "put_stt"
         ELSE /\ srcPos' = srcPos
              /\ distPc' = AfterSourceEnd(srcFails)
    /\ UNCHANGED <<source, srcFails, stt_queue, affect_queue, received, ended>>

\* the distributor task is cancelled while it waits for the source's next
\* chunk (its only suspension point: put on an unbounded queue never waits);
\* CancelledError is not an Exception, so the except branch does not run
DistCancel ==
    /\ distPc = "read"
    /\ srcPos < Len(source)
    /\ distPc' = "cancelled"
    /\ UNCHANGED <<source, srcFails, srcPos, stt_queue, affect_queue, received, ended>>

\* await stt_queue.put(chunk)
DistPutStt ==
    /\ distPc = "put_stt"
    /\ stt_queue' = QueuePut(stt_queue, source[srcPos])
    /\ distPc' = "put_affect"
    /\ UNCHANGED <<source, srcFails, srcPos, affect_queue, received, ended>>

\* await affect_queue.put(chunk)
DistPutAffect ==
    /\ distPc = "put_affect"
    /\ affect_queue' = QueuePut(affect_queue, source[srcPos])
    /\ distPc' = "read"
    /\ UNCHANGED <<source, srcFails, srcPos, stt_queue, received, ended>>

\* await stt_queue.put(None), after the loop or in the except branch
DistEndStt ==
    /\ distPc \in {"end_stt", "exc_stt"}
    /\ stt_queue' = QueuePut(stt_queue, NoneItem)
    /\ distPc' = IF distPc = "end_stt" THEN "end_affect" ELSE "exc_affect"
    /\ UNCHANGED <<source, srcFails, srcPos, affect_queue, received, ended>>

\* await affect_queue.put(None), after the loop or in the except branch
DistEndAffect ==
    /\ distPc \in {"end_affect", "exc_affect"}
    /\ affect_queue' = QueuePut(affect_queue, NoneItem)
    /\ distPc' = "done"
    /\ UNCHANGED <<source, srcFails, srcPos, stt_queue, received, ended>>

\* _queue_gen, one iteration on the transcription branch
QueueGenStt ==
    /\ ~ended["stt"]
    /\ stt_queue # <<>>
    /\ stt_queue' = Tail(stt_queue)
    /\ IF Head(stt_queue) = NoneItem
         THEN /\ ended' = [ended EXCEPT !["stt"] = TRUE]
              /\ received' = received
         ELSE /\ received' = [received EXCEPT !["stt"] = Append(@, Head(stt_queue))]
              /\ ended' = ended
    /\ UNCHANGED <<source, srcFails, distPc, srcPos, affect_queue>>

\* _queue_gen, one iteration on the affect branch
QueueGenAffect ==
    /\ ~ended["affect"]
    /\ affect_queue # <<>>
    /\ affect_queue' = Tail(affect_queue)
    /\ IF Head(affect_queue) = NoneItem
         THEN /\ ended' = [ended EXCEPT !["affect"] = TRUE]
              /\ received' = received
         ELSE /\ received' = [received EXCEPT !["affect"] = Append(@, Head(affect_queue))]
              /\ ended' = ended
    /\ UNCHANGED <<source, srcFails, distPc, srcPos, stt_queue>>

FanNext ==
    /\ \/ DistRead
       \/ DistCancel
       \/ DistPutStt
       \/ DistPutAffect
       \/ DistEndStt
       \/ DistEndAffect
       \/ QueueGenStt
       \/ QueueGenAffect
    /\ UNCHANGED <<vadVars, busVars, cbVars, turnVars, synVars, rtVars, toolVars, loopVars>>

(***************************************************************************)
(* CommandBus: chain-of-responsibility failover                            *)
(***************************************************************************)
MaxChain == 3
MaxUnits == 2
MaxStallChain == 2

\* A provider yields len units and then either ends normally or raises.
\* In a non-streaming call a failing provider raises, a healthy one returns.
\* open: the adapter's own circuit_breaker is OPEN within its recovery window
\* while the invocation runs (the bus never reads it).
ProviderBehaviours == [len : 0..MaxUnits, fail : BOOLEAN, open : BOOLEAN]

\* the units provider i produces: unit j of provider i is <<i, j>>
ProviderOutput(i) == [j \in 1..chain[i].len |-> <<i, j>>]

BusFresh ==
    /\ busPc = "idle"
    /\ busIdx = 1
    /\ busPos = 0
    /\ errors = <<>>
    /\ delivered = <<>>
    /\ attempts = <<>>

BusInit ==
    /\ chain \in SeqsUpTo(ProviderBehaviours, MaxChain)
    /\ stalled = {}
    /\ busMode \in {"call", "stream"}
    /\ BusFresh

\* chains in which any provider may hang: its awaited call, or the next item
\* of its stream, never arrives and nothing is raised
StallInit ==
    /\ chain \in SeqsUpTo(ProviderBehaviours, MaxStallChain)
    /\ stalled \in SUBSET (1..Len(chain))
    /\ busMode \in {"call", "stream"}
    /\ BusFresh

BusIdle ==
    /\ chain = <<>>
    /\ stalled = {}
    /\ busMode = "stream"
    /\ BusFresh

\* errors.append(e)
ErrorsKeepLast(errs, i) == <<i>>
ErrorsAfterFailure(errs, i) == Append(errs, i)

\* for i, adapter in enumerate(chain): the adapter tried after adapter i failed
NextAdapterSkip(i) == i + 2
NextAdapter(i) == i + 1

\* for i, adapter in enumerate(chain): the first adapter tried
FirstAdapterSecond == NextAdapter(1)
FirstAdapter == 1

\* stream = await operation(adapter): how many units of the new provider's
\* stream have been consumed when iteration over it starts
ResumeOffset(pos) == pos
StartOffset(pos) == 0

\* how the invocation ends when the for loop runs out of adapters (also when
\* the chain is empty and the loop body never runs): raise Exception(...)
LoopExhaustedSilentIfEmpty(ch) == IF Len(ch) = 0 THEN "returned" ELSE "raised"
LoopExhausted(ch) == "raised"

\* await operation(adapter) / async for item in stream: the awaited result,
\* end or exception of provider i arrives; the bus sets no timeout on either
ProviderResponds(i) == i \notin stalled

\* errors = [] ; the for loop is entered
BusInvoke ==
    /\ busPc = "idle"
    /\ busPc' = "next"
    /\ busIdx' = FirstAdapter
    /\ errors' = <<>>
    /\ UNCHANGED <<chain, stalled, busMode, busPos, delivered, attempts>>

\* Loop exhausted: raise Exception("... Todos los adaptadores fallaron ...")
\* (after the for loop in _execute_with_fallback, the for-else in the stream variant)
BusRaiseAll ==
    /\ busPc = "next"
    /\ busIdx > Len(chain)
    /\ busPc' = LoopExhausted(chain)
    /\ UNCHANGED <<chain, stalled, busMode, busIdx, busPos, errors, delivered, attempts>>

\* _execute_with_fallback, one loop iteration: return await operation(adapter)
BusCallAdapter ==
    /\ busPc = "next"
    /\ busMode = "call"
    /\ busIdx <= Len(chain)
    /\ ProviderResponds(busIdx)
    /\ attempts' = Append(attempts, busIdx)
    /\ IF chain[busIdx].fail
         THEN /\ errors' = ErrorsAfterFailure(errors, busIdx)
              /\ busIdx' = NextAdapter(busIdx)
              /\ UNCHANGED <<busPc, delivered>>
         ELSE /\ delivered' = ProviderOutput(busIdx)
              /\ busPc' = "returned"
              /\ UNCHANGED <<errors, busIdx>>
    /\ UNCHANGED <<chain, stalled, busMode, busPos>>

\* _execute_stream_with_fallback: stream = await operation(adapter)
BusOpenStream ==
    /\ busPc = "next"
    /\ busMode = "stream"
    /\ busIdx <= Len(chain)
    /\ attempts' = Append(attempts, busIdx)
    /\ busPos' = StartOffset(busPos)
    /\ busPc' = "stream"
    /\ UNCHANGED <<chain, stalled, busMode, busIdx, errors, delivered>>

\* async for item in stream: yield item
BusYield ==
    /\ busPc = "stream"
    /\ busPos < chain[busIdx].len
    /\ busPos' = busPos + 1
    /\ delivered' = Append(delivered, ProviderOutput(busIdx)[busPos + 1])
    /\ UNCHANGED <<chain, stalled, busMode, busPc, busIdx, errors, attempts>>

\* the stream raises: except branch, then the next adapter (or loop exhaustion)
BusStreamFails ==
    /\ busPc = "stream"
    /\ busPos = chain[busIdx].len
    /\ ProviderResponds(busIdx)
    /\ chain[busIdx].fail
    /\ errors' = ErrorsAfterFailure(errors, busIdx)
    /\ busIdx' = NextAdapter(busIdx)
    /\ busPc' = "next"
    /\ UNCHANGED <<chain, stalled, busMode, busPos, delivered, attempts>>

\* the stream ends without error: break
BusStreamEnds ==
    /\ busPc = "stream"
    /\ busPos = chain[busIdx].len
    /\ ProviderResponds(busIdx)
    /\ ~chain[busIdx].fail
    /\ busPc' = "returned"
    /\ UNCHANGED <<chain, stalled, busMode, busIdx, busPos, errors, delivered, attempts>>

BusNext ==
    /\ \/ BusInvoke
       \/ BusRaiseAll
       \/ BusCallAdapter
       \/ BusOpenStream
       \/ BusYield
       \/ BusStreamFails
       \/ BusStreamEnds
    /\ UNCHANGED <<vadVars, fanVars, cbVars, turnVars, synVars, rtVars, toolVars, loopVars>>

(***************************************************************************)
(* CircuitBreaker and the guarded adapter call                             *)
(***************************************************************************)
recovery_timeout_s == 30
NoTime == -1
MaxThreshold == 3
NumCallers == 2
MaxTime == 62
TickSteps == {recovery_timeout_s \div 2, recovery_timeout_s + 1}
Callers == 1..NumCallers

Min(a, b) == IF a < b THEN a ELSE b

CbFresh ==
    /\ cbState = "CLOSED"
    /\ failure_count = 0
    /\ last_failure_time = NoTime
    /\ now = 0
    /\ callPc = [c \in Callers |-> "idle"]
    /\ lastCall = "none"
    /\ consecFailures = 0

CbInit ==
    /\ failure_threshold \in 1..MaxThreshold
    /\ CbFresh

CbIdle ==
    /\ failure_threshold = MaxThreshold
    /\ CbFresh

\* CircuitBreaker.is_open: elapsed > self.recovery_timeout_s
RecoveryElapsed(lft, t) == lft # NoTime /\ (t - lft) > recovery_timeout_s

\* CircuitBreaker.is_open: the returned value
IsOpen(st, lft, t) == st = "OPEN" /\ ~RecoveryElapsed(lft, t)

\* CircuitBreaker.is_open: the state it leaves behind
StateAfterIsOpen(st, lft, t) ==
    IF st = "OPEN" /\ RecoveryElapsed(lft, t) THEN "HALF_OPEN" ELSE st

\* CircuitBreaker.is_open: the failure counter it leaves behind
CountAfterIsOpenAnyOpen(st, cnt, lft, t) ==
    IF st = "OPEN" THEN 0 ELSE cnt
CountAfterIsOpen(st, cnt, lft, t) ==
    IF st = "OPEN" /\ RecoveryElapsed(lft, t) THEN 0 ELSE cnt

\* CircuitBreaker.record_failure: the state after the counter was incremented to cnt
StateAfterFailure(st, cnt, threshold) ==
    IF cnt >= threshold THEN "OPEN" ELSE st

\* GeminiAdapter.generate, entry: if self.circuit_breaker.is_open(): raise RuntimeError
\* otherwise the provider call is started
CallBegin(c) ==
    /\ callPc[c] = "idle"
    /\ cbState' = StateAfterIsOpen(cbState, last_failure_time, now)
    /\ failure_count' = CountAfterIsOpen(cbState, failure_count, last_failure_time, now)
    /\ IF IsOpen(cbState, last_failure_time, now)
         THEN /\ lastCall' = "rejected"
              /\ callPc' = callPc
         ELSE /\ lastCall' = "admitted"
              /\ callPc' = [callPc EXCEPT ![c] =
                               IF cbState' = "HALF_OPEN" THEN "probe" ELSE "inflight"]
    /\ UNCHANGED <<failure_threshold, last_failure_time, now, consecFailures>>

\* GeminiAdapter.generate, success path: self.circuit_breaker.record_success()
CallSucceed(c) ==
    /\ callPc[c] \in {"inflight", "probe"}
    /\ failure_count' = 0
    /\ cbState' = "CLOSED"
    /\ consecFailures' = 0
    /\ callPc' = [callPc EXCEPT ![c] = "idle"]
    /\ lastCall' = "succeeded"
    /\ UNCHANGED <<failure_threshold, last_failure_time, now>>

\* GeminiAdapter.generate, except branches: self.circuit_breaker.record_failure()
CallFail(c) ==
    /\ callPc[c] \in {"inflight", "probe"}
    /\ failure_count' = failure_count + 1
    /\ last_failure_time' = now
    /\ cbState' = StateAfterFailure(cbState, failure_count + 1, failure_threshold)
    /\ consecFailures' = Min(consecFailures + 1, failure_threshold)
    /\ callPc' = [callPc EXCEPT ![c] = "idle"]
    /\ lastCall' = "failed"
    /\ UNCHANGED <<failure_threshold, now>>

\* time.time() advances
Tick(d) ==
    /\ now + d <= MaxTime
    /\ now' = now + d
    /\ lastCall' = "none"
    /\ UNCHANGED <<failure_threshold, cbState, failure_count, last_failure_time,
                   callPc, consecFailures>>

CbBegin == \E c \in Callers : CallBegin(c)
CbSucceed == \E c \in Callers : CallSucceed(c)
CbFail == \E c \in Callers : CallFail(c)
CbTick == \E d \in TickSteps : Tick(d)

CbNext ==
    /\ \/ CbBegin
       \/ CbSucceed
       \/ CbFail
       \/ CbTick
    /\ UNCHANGED <<vadVars, fanVars, busVars, turnVars, synVars, rtVars, toolVars, loopVars>>

(***************************************************************************)
(* AssistantService.process_audio: transcript check and tiering            *)
(***************************************************************************)
ShortResponseWords == 25
ProactiveWords == 4
MaxPartials == 2
MaxQuickChunks == 5

\* Texts are sequences of characters; " " is the whitespace character.
Rep(n, s) == [i \in 1..(n * Len(s)) |-> s[((i - 1) % Len(s)) + 1]]
FallbackText == <<"¿Hola? No te escuché.">>
PartialTexts == {<<>>, <<" ">>, <<"a">>, <<" ", "a", " ">>, <<"a", " ", "a">>,
                 <<"a", " ", "a", " ", "a", " ", "a">>,
                 <<"a", " ", "a", " ", "a", " ", "a", " ", "a">>}
QuickChunkSet == {<<"a">>, <<" ">>, Rep(12, <<"a", " ">>)}

\* len(text.split()): number of maximal runs of non-whitespace characters
WordCount(t) ==
    Cardinality({i \in 1..Len(t) : t[i] # " " /\ (i = 1 \/ t[i - 1] = " ")})

\* text.strip() == "" : nothing but whitespace
IsBlank(t) == \A i \in 1..Len(t) : t[i] = " "

\* "".join(chunks)
RECURSIVE Join(_)
Join(chunks) == IF chunks = <<>> THEN <<>> ELSE Head(chunks) \o Join(Tail(chunks))

\* if 0 < word_count <= 25
FastPathNoEmptyCheck(wc) == wc <= ShortResponseWords
FastPathAccepted(wc) == 0 < wc /\ wc <= ShortResponseWords

\* if not final_text.strip()
TranscriptEmptyNoStrip(t) == t = <<>>
TranscriptEmpty(t) == IsBlank(t)

\* results of the affect analysis
Affects == {"calm", "upset"}
MaxRespChunks == 2
RespChunkSet == {<<"a">>, <<" ", "a">>}

\* kb_context: "" when no lookup was issued, else what the lookup returned
NoContext == <<>>
KbResult(q) == <<"kb", q>>
KbContext(st, q) == IF st = "resolved" THEN KbResult(q) ELSE NoContext

\* Message(text, role)
Message(text, role) == [role |-> role, content |-> text]

\* GenerateLLMStreamCommand as the handler reads it when it is issued
NoRequest == [issued |-> FALSE]
Request(msg, kb, affect, conv, tools) ==
    [issued |-> TRUE, user_message |-> msg, hotel_context |-> kb,
     emotional_state |-> affect, conversation |-> conv, tools |-> tools]

TurnInit ==
    /\ turnPc = "transcribing"
    /\ final_text = <<>>
    /\ rag_triggered = FALSE
    /\ nPartials = 0
    /\ quick_chunks = <<>>
    /\ omega1Calls = 0
    /\ omega2Calls = 0
    /\ kbCalls = 0
    /\ ttsText = <<>>
    /\ retText = <<>>
    /\ firstLong = <<>>
    /\ kbState = "none"
    /\ kbQuery = <<>>
    /\ affectState = "running"
    /\ emotional_state = "none"
    /\ conversation = <<>>
    /\ omega1Req = NoRequest
    /\ omega2Req = NoRequest
    /\ streamPc = "none"
    /\ full_response_text = <<>>
    /\ audioDone = FALSE
    /\ logCalls = 0

\* if len(words) >= 4 and not rag_triggered
ProactiveTriggerRepeated(t, triggered) == WordCount(t) >= ProactiveWords
ProactiveTrigger(t, triggered) == WordCount(t) >= ProactiveWords /\ ~triggered

\* emotional_state = await affect_task: may the turn go on
AffectJoinedAlways(st) == TRUE
AffectJoined(st) == st = "resolved"

\* the conversation the OMEGA-1 command carries: add_message(USER) precedes it
ConversationAtRequestBefore(conv, msg) == conv
ConversationAtRequest(conv, msg) == Append(conv, msg)

\* _proactive_pipeline, one iteration of: async for text_chunk in text_stream
TextChunk(t) ==
    /\ turnPc = "transcribing"
    /\ nPartials < MaxPartials
    /\ nPartials' = nPartials + 1
    /\ final_text' = t
    /\ firstLong' = IF firstLong = <<>> /\ WordCount(t) >= 4 THEN t ELSE firstLong
    /\ IF ProactiveTrigger(t, rag_triggered)
         THEN /\ rag_triggered' = TRUE
              /\ kbCalls' = kbCalls + 1
              /\ kbState' = "inflight"
              /\ kbQuery' = t
         ELSE UNCHANGED tKb
    /\ UNCHANGED <<turnPc, tAffect, tGen, tOut, tResp, conversation>>

\* the transcription stream raises inside the async for: _proactive_pipeline
\* and process_audio raise; nothing is cancelled
TextFails ==
    /\ turnPc = "transcribing"
    /\ turnPc' = "failed"
    /\ UNCHANGED <<tText, tKb, tAffect, tGen, tOut, tResp, conversation>>

\* The text stream ends: await rag_task if one was started, else issue the
\* lookup now (elif final_text), else go on without context.
TextEnd ==
    /\ turnPc = "transcribing"
    /\ IF rag_triggered
         THEN /\ turnPc' = "await_rag"
              /\ UNCHANGED tKb
         ELSE IF final_text # <<>>
           THEN /\ kbCalls' = kbCalls + 1
                /\ kbState' = "inflight"
                /\ kbQuery' = final_text
                /\ turnPc' = "await_rag"
                /\ UNCHANGED rag_triggered
           ELSE /\ turnPc' = "await_affect"
                /\ UNCHANGED tKb
    /\ UNCHANGED <<tText, tAffect, tGen, tOut, tResp, conversation>>

\* the knowledge lookup (background task or awaited query) completes
KbResolve ==
    /\ kbState = "inflight"
    /\ kbState' = "resolved"
    /\ UNCHANGED <<turnPc, tText, rag_triggered, kbCalls, kbQuery, tAffect, tGen,
                   tOut, tResp, conversation>>

\* kb_context = await ... ; return final_text, kb_context
RagAwaited ==
    /\ turnPc = "await_rag"
    /\ kbState = "resolved"
    /\ turnPc' = "await_affect"
    /\ UNCHANGED <<tText, tKb, tAffect, tGen, tOut, tResp, conversation>>

\* affect_port.analyze_stream completes
AffectResolve(e) ==
    /\ affectState = "running"
    /\ affectState' = "resolved"
    /\ emotional_state' = e
    /\ UNCHANGED <<turnPc, tText, tKb, tGen, tOut, tResp, conversation>>

\* emotional_state = await affect_task, then either the fallback return or
\* add_message(USER) and the OMEGA-1 request (tools=None)
AffectAwaited ==
    /\ turnPc = "await_affect"
    /\ AffectJoined(affectState)
    /\ IF TranscriptEmpty(final_text)
         THEN /\ retText' = FallbackText
              /\ ttsText' = FallbackText
              /\ turnPc' = "done_fallback"
              /\ UNCHANGED <<omega1Calls, omega1Req, conversation>>
         ELSE /\ conversation' = Append(conversation, Message(final_text, "user"))
              /\ omega1Calls' = omega1Calls + 1
              /\ omega1Req' = Request(final_text, KbContext(kbState, kbQuery), emotional_state,
                                       ConversationAtRequest(conversation, Message(final_text, "user")),
                                       FALSE)
              /\ turnPc' = "omega1"
              /\ UNCHANGED <<retText, ttsText>>
    /\ UNCHANGED <<tText, tKb, tAffect, quick_chunks, omega2Calls, omega2Req,
                   audioDone, tResp>>

\* async for chunk in llm_quick_stream: quick_response_chunks.append(chunk)
Omega1Chunk(c) ==
    /\ turnPc = "omega1"
    /\ Len(quick_chunks) < MaxQuickChunks
    /\ quick_chunks' = Append(quick_chunks, c)
    /\ UNCHANGED <<turnPc, tText, tKb, tAffect, omega1Calls, omega2Calls, omega1Req,
                   omega2Req, tOut, tResp, conversation>>

\* The OMEGA-1 stream is drained: word count, then fast path or OMEGA-2 (tools)
\* whose stream is wrapped by _process_llm_stream and handed to synthesis
Omega1End ==
    /\ turnPc = "omega1"
    /\ IF FastPathAccepted(WordCount(Join(quick_chunks)))
         THEN /\ retText' = final_text
              /\ ttsText' = Join(quick_chunks)
              /\ turnPc' = "done_fast"
              /\ UNCHANGED <<omega2Calls, omega2Req, streamPc>>
         ELSE /\ omega2Calls' = omega2Calls + 1
              /\ omega2Req' = Request(final_text, KbContext(kbState, kbQuery), emotional_state,
                                       conversation, TRUE)
              /\ streamPc' = "open"
              /\ retText' = final_text
              /\ turnPc' = "done_full"
              /\ UNCHANGED ttsText
    /\ UNCHANGED <<tText, tKb, tAffect, quick_chunks, omega1Calls, omega1Req,
                   audioDone, full_response_text, logCalls, conversation>>

\* The OMEGA-1 stream raises (generation chain exhausted): process_audio raises
Omega1Fails ==
    /\ turnPc = "omega1"
    /\ turnPc' = "failed"
    /\ UNCHANGED <<tText, tKb, tAffect, tGen, tOut, tResp, conversation>>

\* _process_llm_stream: a text unit is yielded and kept
Omega2Chunk(c) ==
    /\ streamPc = "open"
    /\ Len(full_response_text) < MaxRespChunks
    /\ full_response_text' = Append(full_response_text, c)
    /\ UNCHANGED <<turnPc, tText, tKb, tAffect, tGen, tOut, streamPc, logCalls,
                   conversation>>

\* _process_llm_stream, after the loop: the assistant message is stored and
\* the interaction log task is created, both only if complete_text
Omega2End ==
    /\ streamPc = "open"
    /\ streamPc' = "ended"
    /\ IF Join(full_response_text) # <<>>
         THEN /\ conversation' = Append(conversation,
                                         Message(Join(full_response_text), "assistant"))
              /\ logCalls' = logCalls + 1
         ELSE UNCHANGED <<conversation, logCalls>>
    /\ UNCHANGED <<turnPc, tText, tKb, tAffect, tGen, tOut, full_response_text>>

\* the OMEGA-2 stream raises while it is consumed: nothing is stored
Omega2Fails ==
    /\ streamPc = "open"
    /\ streamPc' = "failed"
    /\ UNCHANGED <<turnPc, tText, tKb, tAffect, tGen, tOut, full_response_text,
                   logCalls, conversation>>

\* the caller plays the stream of _quick_tts_stream to its end
QuickAudioDone ==
    /\ turnPc \in {"done_fast", "done_fallback"}
    /\ ~audioDone
    /\ audioDone' = TRUE
    /\ UNCHANGED <<turnPc, tText, tKb, tAffect, tGen, ttsText, retText, tResp,
                   conversation>>

TurnText == \E t \in PartialTexts : TextChunk(t)
TurnQuick == \E c \in QuickChunkSet : Omega1Chunk(c)
TurnAffect == \E e \in Affects : AffectResolve(e)
TurnResponse == \E c \in RespChunkSet : Omega2Chunk(c)

TurnNext ==
    /\ \/ TurnText
       \/ TextFails
       \/ TextEnd
       \/ KbResolve
       \/ RagAwaited
       \/ TurnAffect
       \/ AffectAwaited
       \/ TurnQuick
       \/ Omega1End
       \/ Omega1Fails
       \/ TurnResponse
       \/ Omega2End
       \/ Omega2Fails
       \/ QuickAudioDone
    /\ UNCHANGED <<vadVars, fanVars, busVars, cbVars, synVars, rtVars, toolVars, loopVars>>

(***************************************************************************)
(* OMEGA-2 response: SynthesizeTTSCommand over the lazy generation stream  *)
(***************************************************************************)
MaxTts == 2
MaxText == 2

\* unit j of the generation stream
TextUnit(j) == <<"t", j>>

SynFresh ==
    /\ textPos = 0
    /\ textDone = FALSE
    /\ synPc = "idle"
    /\ synIdx = 1
    /\ full_text = <<>>
    /\ audio = <<>>
    /\ synErrors = <<>>

SynInit ==
    /\ tts_chain \in SeqsUpTo(BOOLEAN, MaxTts)
    /\ textLen \in 0..MaxText
    /\ textFails \in BOOLEAN
    /\ SynFresh

SynIdle ==
    /\ tts_chain = <<>>
    /\ textLen = 0
    /\ textFails = FALSE
    /\ SynFresh

\* the consumer starts iterating the audio stream returned by process_audio:
\* errors = [] ; the for loop over the synthesis chain is entered
SynInvoke ==
    /\ synPc = "idle"
    /\ synPc' = "next"
    /\ synIdx' = FirstAdapter
    /\ synErrors' = <<>>
    /\ UNCHANGED <<tts_chain, textLen, textFails, textPos, textDone, full_text, audio>>

\* for-else: every synthesis provider failed, the aggregated error is raised
SynRaiseAll ==
    /\ synPc = "next"
    /\ synIdx > Len(tts_chain)
    /\ synPc' = LoopExhausted(tts_chain)
    /\ UNCHANGED <<tts_chain, textLen, textFails, textPos, textDone, synIdx,
                   full_text, audio, synErrors>>

\* stream = adapter.synthesize_stream(cmd.text_stream): every provider is
\* handed the same generator object; full_text = ""
SynOpenStream ==
    /\ synPc = "next"
    /\ synIdx <= Len(tts_chain)
    /\ full_text' = <<>>
    /\ synPc' = "collect"
    /\ UNCHANGED <<tts_chain, textLen, textFails, textPos, textDone, synIdx,
                   audio, synErrors>>

\* async for chunk in text_stream: full_text += chunk
SynReadText ==
    /\ synPc = "collect"
    /\ ~textDone
    /\ textPos < textLen
    /\ textPos' = textPos + 1
    /\ full_text' = Append(full_text, TextUnit(textPos + 1))
    /\ UNCHANGED <<tts_chain, textLen, textFails, textDone, synPc, synIdx,
                   audio, synErrors>>

\* the generation stream raises its aggregated error inside the provider's
\* async for; the bus records it as this synthesis provider's failure
SynTextRaises ==
    /\ synPc = "collect"
    /\ ~textDone
    /\ textPos = textLen
    /\ textFails
    /\ textDone' = TRUE
    /\ synErrors' = ErrorsAfterFailure(synErrors, synIdx)
    /\ synIdx' = NextAdapter(synIdx)
    /\ synPc' = "next"
    /\ UNCHANGED <<tts_chain, textLen, textFails, textPos, full_text, audio>>

\* the async for over text_stream ends: the generator is exhausted now, or
\* it had already ended or raised under an earlier provider
SynTextEnds ==
    /\ synPc = "collect"
    /\ textDone \/ (textPos = textLen /\ ~textFails)
    /\ textDone' = TRUE
    /\ synPc' = "speak"
    /\ UNCHANGED <<tts_chain, textLen, textFails, textPos, synIdx, full_text,
                   audio, synErrors>>

\* if full_text: response = await self.synthesize(...); yield audio_bytes
SynSpeak ==
    /\ synPc = "speak"
    /\ IF full_text = <<>>
         THEN /\ synPc' = "returned"
              /\ UNCHANGED <<synIdx, audio, synErrors>>
         ELSE IF tts_chain[synIdx]
           THEN /\ synErrors' = ErrorsAfterFailure(synErrors, synIdx)
                /\ synIdx' = NextAdapter(synIdx)
                /\ synPc' = "next"
                /\ UNCHANGED audio
           ELSE /\ audio' = Append(audio, <<synIdx, full_text>>)
                /\ synPc' = "returned"
                /\ UNCHANGED <<synIdx, synErrors>>
    /\ UNCHANGED <<tts_chain, textLen, textFails, textPos, textDone, full_text>>

SynNext ==
    /\ \/ SynInvoke
       \/ SynRaiseAll
       \/ SynOpenStream
       \/ SynReadText
       \/ SynTextRaises
       \/ SynTextEnds
       \/ SynSpeak
    /\ UNCHANGED <<vadVars, fanVars, busVars, cbVars, turnVars, rtVars, toolVars, loopVars>>

(***************************************************************************)
(* retry_async wrapped around GeminiAdapter.generate and its breaker       *)
(***************************************************************************)
MaxRetries == 2
MaxCalls == 2
initial_delay_ms == 300
max_delay_ms == 5000
backoff_factor == 2
NoAttempt == -1

RtFresh ==
    /\ retryPc = "idle"
    /\ attempt = 0
    /\ delay = initial_delay_ms
    /\ last_exception = NoAttempt
    /\ invocations = 0
    /\ waits = 0
    /\ failedAttempts = 0
    /\ retResult = NoAttempt
    /\ countAtStart = 0
    /\ nCalls = 0

RtInit ==
    /\ max_retries \in 0..MaxRetries
    /\ RtFresh

RtIdle ==
    /\ max_retries = MaxRetries
    /\ RtFresh

\* if attempt < max_retries: sleep before the next attempt
RetryAllowedInclusive(a, mr) == a <= mr
RetryAllowed(a, mr) == a < mr

\* for attempt in range(max_retries + 1): is there a next iteration
RangeHasNext(a, mr) == a + 1 <= mr

\* delay = min(delay * backoff_factor, max_delay_s)
DelayAfter(dl) == Min(dl * backoff_factor, max_delay_ms)

\* the wrapper's position after the except branch of attempt a was entered
AfterException(a, mr) ==
    IF RetryAllowed(a, mr) THEN "sleep"
    ELSE IF RangeHasNext(a, mr) THEN "attempt" ELSE "raised"

\* wrapper entry: delay = initial_delay_s ; last_exception = None
RetryCall ==
    /\ retryPc \in {"idle", "returned", "raised"}
    /\ nCalls < MaxCalls
    /\ nCalls' = nCalls + 1
    /\ retryPc' = "attempt"
    /\ attempt' = 0
    /\ delay' = initial_delay_ms
    /\ last_exception' = NoAttempt
    /\ invocations' = 0
    /\ waits' = 0
    /\ failedAttempts' = 0
    /\ retResult' = NoAttempt
    /\ countAtStart' = failure_count
    /\ UNCHANGED <<max_retries, cbVars>>

\* what every raising attempt does to the wrapper
RetryExcept ==
    /\ invocations' = invocations + 1
    /\ failedAttempts' = failedAttempts + 1
    /\ last_exception' = attempt
    /\ retryPc' = AfterException(attempt, max_retries)
    /\ attempt' = IF retryPc' = "attempt" THEN attempt + 1 ELSE attempt
    /\ UNCHANGED <<max_retries, delay, waits, retResult, countAtStart, nCalls>>

\* func is invoked and is_open() is true: RuntimeError, nothing recorded
RetryAttemptRejected ==
    /\ retryPc = "attempt"
    /\ IsOpen(cbState, last_failure_time, now)
    /\ RetryExcept
    /\ UNCHANGED cbVars

\* func is invoked, passes is_open(), the provider fails: record_failure()
RetryAttemptFails ==
    /\ retryPc = "attempt"
    /\ ~IsOpen(cbState, last_failure_time, now)
    /\ LET cnt == CountAfterIsOpen(cbState, failure_count, last_failure_time, now) + 1
           st == StateAfterIsOpen(cbState, last_failure_time, now)
       IN  /\ failure_count' = cnt
           /\ cbState' = StateAfterFailure(st, cnt, failure_threshold)
    /\ last_failure_time' = now
    /\ RetryExcept
    /\ UNCHANGED <<failure_threshold, now, callPc, lastCall, consecFailures>>

\* func is invoked, passes is_open(), the provider answers: record_success(),
\* the wrapper returns the result
RetryAttemptOk ==
    /\ retryPc = "attempt"
    /\ ~IsOpen(cbState, last_failure_time, now)
    /\ failure_count' = 0
    /\ cbState' = "CLOSED"
    /\ invocations' = invocations + 1
    /\ retResult' = attempt
    /\ retryPc' = "returned"
    /\ UNCHANGED <<failure_threshold, last_failure_time, now, callPc, lastCall,
                   consecFailures, max_retries, attempt, delay, last_exception,
                   waits, failedAttempts, countAtStart, nCalls>>

\* await asyncio.sleep(delay); the delay is raised; next loop iteration
RetrySleep ==
    /\ retryPc = "sleep"
    /\ waits' = waits + 1
    /\ delay' = DelayAfter(delay)
    /\ retryPc' = IF RangeHasNext(attempt, max_retries) THEN "attempt" ELSE "raised"
    /\ attempt' = IF RangeHasNext(attempt, max_retries) THEN attempt + 1 ELSE attempt
    /\ UNCHANGED <<max_retries, last_exception, invocations, failedAttempts,
                   retResult, countAtStart, nCalls, cbVars>>

\* time passes between two wrapped calls
RetryTick ==
    /\ retryPc \in {"idle", "returned", "raised"}
    /\ \E d \in TickSteps : Tick(d)
    /\ UNCHANGED rtVars

RtNext ==
    /\ \/ RetryCall
       \/ RetryAttemptRejected
       \/ RetryAttemptFails
       \/ RetryAttemptOk
       \/ RetrySleep
       \/ RetryTick
    /\ UNCHANGED <<vadVars, fanVars, busVars, turnVars, synVars, toolVars, loopVars>>

(***************************************************************************)
(* AssistantService._process_llm_stream: tool-call interception            *)
(***************************************************************************)
MaxLlmUnits == 2

\* the texts the tools and the error branch produce
BookingText == <<"listo">>
CheckInText == <<"check-in">>
SupportText == <<"soporte">>
CannotText == <<"no puedo">>
ApologyText == <<"problema">>

\* what repository_port.save_booking does for one booking
SaveOutcomes == {"saved", "refused", "raises"}

\* a unit of llm_stream: plain text, or a chunk starting with __FUNCTION_CALL__:
\* whose payload parses (json.loads, fc_data['name'], fc_data['args']) or not
PlainUnit(t) ==
    [tagged |-> FALSE, text |-> t, parses |-> TRUE, name |-> "none", save |-> "none"]
CallUnit(p, n, s) ==
    [tagged |-> TRUE, text |-> <<>>, parses |-> p, name |-> n, save |-> s]
LlmUnits ==
    {PlainUnit(<<"a">>), CallUnit(FALSE, "none", "none")}
      \cup {CallUnit(TRUE, n, "none") : n \in {"check_in_info", "contact_support", "open_door"}}
      \cup {CallUnit(TRUE, "make_booking", s) : s \in SaveOutcomes}

\* the state _process_llm_stream starts in: one partial "a", its lookup and
\* the affect result joined, an OMEGA-1 answer of no words, OMEGA-2 issued
TurnAtOmega2 ==
    LET user == Message(<<"a">>, "user") IN
    /\ turnPc = "done_full"
    /\ final_text = <<"a">>
    /\ nPartials = 1
    /\ firstLong = <<>>
    /\ rag_triggered = FALSE
    /\ kbCalls = 1
    /\ kbState = "resolved"
    /\ kbQuery = <<"a">>
    /\ affectState = "resolved"
    /\ emotional_state = "calm"
    /\ quick_chunks = <<>>
    /\ omega1Calls = 1
    /\ omega2Calls = 1
    /\ omega1Req = Request(<<"a">>, KbResult(<<"a">>), "calm", <<user>>, FALSE)
    /\ omega2Req = Request(<<"a">>, KbResult(<<"a">>), "calm", <<user>>, TRUE)
    /\ ttsText = <<>>
    /\ retText = <<"a">>
    /\ audioDone = FALSE
    /\ streamPc = "open"
    /\ full_response_text = <<>>
    /\ logCalls = 0
    /\ conversation = <<user>>

ToolFresh ==
    /\ unitPos = 0
    /\ function_call_detected = FALSE
    /\ last_booking = FALSE
    /\ bookingsSaved = 0

ToolInit ==
    /\ llm_units \in SeqsUpTo(LlmUnits, MaxLlmUnits)
    /\ ToolFresh

ToolIdle ==
    /\ llm_units = <<>>
    /\ ToolFresh

\* _tool_make_booking: does execute_command(SaveBookingCommand) raise
\* (execute_command re-raises what repository_port.save_booking raised)
MakeBookingRaises(save) == save = "raises"

\* _handle_save_booking / save_booking: was the booking persisted
BookingPersisted(save) == save = "saved"

\* _tool_make_booking: is set_state("last_booking", ...) reached; the value
\* awaited from execute_command is not looked at
LastBookingSet(save) == ~MakeBookingRaises(save)

\* _execute_tool: does the dispatch raise
ExecuteToolRaises(name, save) == name = "make_booking" /\ MakeBookingRaises(save)

\* _execute_tool: the text returned when the dispatch does not raise
ExecuteToolUnknownPassesName(name, save) ==
    IF name = "make_booking" THEN BookingText
    ELSE IF name = "check_in_info" THEN CheckInText
    ELSE IF name = "contact_support" THEN SupportText
    ELSE <<name>>
ExecuteTool(name, save) ==
    IF name = "make_booking" THEN BookingText
    ELSE IF name = "check_in_info" THEN CheckInText
    ELSE IF name = "contact_support" THEN SupportText
    ELSE CannotText

\* the try block of a tagged unit raises: parsing or the tool
ToolCallRaises(u) == ~u.parses \/ ExecuteToolRaises(u.name, u.save)

\* the async for after the except branch of a tagged unit: the loop goes on
StreamAfterUnitAbortOnError(raised) == IF raised THEN "failed" ELSE "open"
StreamAfterUnit(raised) == "open"

\* what one loop iteration yields for unit u
UnitOutput(u) ==
    IF ~u.tagged THEN u.text
    ELSE IF ToolCallRaises(u) THEN ApologyText
    ELSE ExecuteTool(u.name, u.save)

\* One iteration of: async for chunk in llm_stream, with the tool it runs
ToolUnit ==
    /\ streamPc = "open"
    /\ unitPos < Len(llm_units)
    /\ LET u == llm_units[unitPos + 1]
           booking == u.tagged /\ u.parses /\ u.name = "make_booking"
       IN  /\ unitPos' = unitPos + 1
           /\ function_call_detected' = (function_call_detected \/ u.tagged)
           /\ full_response_text' = Append(full_response_text, UnitOutput(u))
           /\ bookingsSaved' = IF booking /\ BookingPersisted(u.save)
                                 THEN bookingsSaved + 1 ELSE bookingsSaved
           /\ last_booking' = (last_booking \/ (booking /\ LastBookingSet(u.save)))
           /\ streamPc' = StreamAfterUnit(u.tagged /\ ToolCallRaises(u))
    /\ UNCHANGED <<llm_units, turnPc, tText, tKb, tAffect, tGen, tOut, logCalls,
                   conversation>>

\* llm_stream is exhausted: the code after the loop
ToolStreamEnd ==
    /\ unitPos = Len(llm_units)
    /\ Omega2End
    /\ UNCHANGED toolVars

ToolNext ==
    /\ \/ ToolUnit
       \/ ToolStreamEnd
    /\ UNCHANGED <<vadVars, fanVars, busVars, cbVars, synVars, rtVars, loopVars>>

(***************************************************************************)
(* HotelKioskApp.run_interactive_mode: capture, one turn, restart          *)
(***************************************************************************)
MaxTurns == 3
MaxCaptured == 2

\* bytes of one chunk handed to on_audio_chunk (16-bit samples)
ChunkBytes == chunk_size * 2

\* if silence_detected and captured_audio and len(captured_audio) > 1000
TurnReady(sd, chunks) == sd /\ chunks > 0 /\ chunks * ChunkBytes > 1000

\* how process_audio leaves the turn: the fallback return (nothing stored),
\* a return after add_message(USER), or an exception before or after it
ProcessOutcomes == {"fallback", "answered", "raised_early", "raised_late"}

\* did process_audio reach conversation.add_message(Message(final_text, USER))
UserMessageStored(outcome) == outcome \in {"answered", "raised_late"}

\* the try block after process_audio: _play_audio follows a return, the
\* except branch follows an exception
AfterProcess(outcome) ==
    IF outcome \in {"fallback", "answered"} THEN "play" ELSE "finally"

\* turns whose processing has begun and whose finally clause has not run
TurnsInProgress == {n \in 1..MaxTurns : turnPhase[n] \in {"processing", "playing"}}

LoopInit ==
    /\ loopPc = "poll"
    /\ silence_detected = FALSE
    /\ captured_audio = 0
    /\ turnsStarted = 0
    /\ turnPhase = [n \in 1..MaxTurns |-> "none"]

\* on_audio_chunk, called by the capture thread: captured_audio += chunk
LoopOnAudioChunk ==
    /\ is_listening
    /\ captured_audio < MaxCaptured
    /\ captured_audio' = captured_audio + 1
    /\ UNCHANGED <<loopPc, silence_detected, turnsStarted, turnPhase, vadVars, conversation>>

\* on_silence_detected, called by the capture thread
LoopOnSilence ==
    /\ is_listening
    /\ ~silence_detected
    /\ silence_detected' = TRUE
    /\ UNCHANGED <<loopPc, captured_audio, turnsStarted, turnPhase, vadVars, conversation>>

\* the poll after asyncio.sleep(0.1) finds an utterance: stop_listening(),
\* then process_audio is awaited
LoopBeginTurn ==
    /\ loopPc = "poll"
    /\ turnsStarted < MaxTurns
    /\ TurnReady(silence_detected, captured_audio)
    /\ StopListening
    /\ turnsStarted' = turnsStarted + 1
    /\ turnPhase' = [turnPhase EXCEPT ![turnsStarted + 1] = "processing"]
    /\ loopPc' = "process"
    /\ UNCHANGED <<silence_detected, captured_audio, conversation>>

\* await assistant_service.process_audio(captured_audio) completes
LoopProcess(outcome) ==
    /\ loopPc = "process"
    /\ conversation' = IF UserMessageStored(outcome)
                         THEN Append(conversation, Message(<<turnsStarted>>, "user"))
                         ELSE conversation
    /\ loopPc' = AfterProcess(outcome)
    /\ turnPhase' = [turnPhase EXCEPT ![turnsStarted] =
                        IF AfterProcess(outcome) = "play" THEN "playing" ELSE @]
    /\ UNCHANGED <<silence_detected, captured_audio, turnsStarted, vadVars>>

\* await self._play_audio(response_audio): the value is treated as bytes, the
\* returned stream is not iterated, every exception is caught inside
LoopPlay ==
    /\ loopPc = "play"
    /\ loopPc' = "finally"
    /\ UNCHANGED <<silence_detected, captured_audio, turnsStarted, turnPhase, vadVars,
                   conversation>>

\* finally: captured_audio = None ; silence_detected = False ;
\* start_listening (which returns at once when is_listening is still set)
LoopFinally ==
    /\ loopPc = "finally"
    /\ captured_audio' = 0
    /\ silence_detected' = FALSE
    /\ IF is_listening THEN UNCHANGED vadVars ELSE StartListening
    /\ turnPhase' = [turnPhase EXCEPT ![turnsStarted] = "ended"]
    /\ loopPc' = "poll"
    /\ UNCHANGED <<turnsStarted, conversation>>

LoopTurn == \E outcome \in ProcessOutcomes : LoopProcess(outcome)

LoopNext ==
    /\ \/ LoopOnAudioChunk
       \/ LoopOnSilence
       \/ LoopBeginTurn
       \/ LoopTurn
       \/ LoopPlay
       \/ LoopFinally
    /\ UNCHANGED <<fanVars, busVars, cbVars, synVars, rtVars, toolVars>>
    /\ UNCHANGED <<turnPc, tText, tKb, tAffect, tGen, tOut, tResp>>

(***************************************************************************)
(* Specifications                                                          *)
(***************************************************************************)
InitVad == VadInit /\ FanIdle /\ BusIdle /\ CbIdle /\ TurnInit /\ SynIdle /\ RtIdle /\ ToolIdle /\ LoopInit
InitFan == VadInit /\ FanInit /\ BusIdle /\ CbIdle /\ TurnInit /\ SynIdle /\ RtIdle /\ ToolIdle /\ LoopInit
InitBus == VadInit /\ FanIdle /\ BusInit /\ CbIdle /\ TurnInit /\ SynIdle /\ RtIdle /\ ToolIdle /\ LoopInit
InitCb == VadInit /\ FanIdle /\ BusIdle /\ CbInit /\ TurnInit /\ SynIdle /\ RtIdle /\ ToolIdle /\ LoopInit
InitTurn == VadInit /\ FanIdle /\ BusIdle /\ CbIdle /\ TurnInit /\ SynIdle /\ RtIdle /\ ToolIdle /\ LoopInit
InitSyn == VadInit /\ FanIdle /\ BusIdle /\ CbIdle /\ TurnInit /\ SynInit /\ RtIdle /\ ToolIdle /\ LoopInit
InitRt == VadInit /\ FanIdle /\ BusIdle /\ CbInit /\ TurnInit /\ SynIdle /\ RtInit /\ ToolIdle /\ LoopInit
InitStall == VadInit /\ FanIdle /\ StallInit /\ CbIdle /\ TurnInit /\ SynIdle /\ RtIdle /\ ToolIdle /\ LoopInit
InitLoop == VadInit /\ FanIdle /\ BusIdle /\ CbIdle /\ TurnInit /\ SynIdle /\ RtIdle /\ ToolIdle /\ LoopInit
InitTool == VadInit /\ FanIdle /\ BusIdle /\ CbIdle /\ TurnAtOmega2 /\ SynIdle /\ RtIdle /\ ToolInit /\ LoopInit

SpecVad == InitVad /\ [][VadNext]_vars
SpecFan == InitFan /\ [][FanNext]_vars
SpecBus == InitBus /\ [][BusNext]_vars
SpecCb == InitCb /\ [][CbNext]_vars
SpecTurn == InitTurn /\ [][TurnNext]_vars
SpecSyn == InitSyn /\ [][SynNext]_vars
SpecRt == InitRt /\ [][RtNext]_vars
SpecStall == InitStall /\ [][BusNext]_vars
SpecLoop == InitLoop /\ [][LoopNext]_vars
SpecTool == InitTool /\ [][ToolNext]_vars

(***************************************************************************)
(* Properties                                                              *)
(***************************************************************************)

\* C1: no close-without-open. on_silence_detected is invoked only by a step
\* that starts with speech_detected true, i.e. the speech-frame threshold was
\* reached after the most recent close/reset.
NoCloseWithoutOpen == [][lastEvent' = "close" => speech_detected]_vars

\* C1 witness: a close event has just been emitted
CloseEmitted == lastEvent = "close"

\* C2: pre-speech silence is inert. While speech_detected is false the
\* close-detection counter stays 0, and the counter only advances in a step
\* that processes a silence chunk while speech_detected is true.
PreSpeechSilenceInert ==
    [][/\ ~speech_detected' => silence_frames' = 0
       /\ silence_frames' > silence_frames => speech_detected /\ lastEvent' = "none"]_vars

\* C2 witness: several silence chunks were received before any arming
PreSpeechSilenceSeen ==
    /\ ~speech_detected
    /\ vad_silence_frames >= 3
    /\ silence_frames = 0

\* C13 (as claimed): speech_detected changes from false to true only when the
\* window of the most recent min_speech_frames classifications is full and
\* every entry of it is a speech classification.
ArmsOnSpeechRun ==
    [][(~speech_detected /\ speech_detected') =>
          /\ Len(speech_frames') = min_speech_frames
          /\ \A i \in 1..Len(speech_frames') : speech_frames'[i]]_vars

\* C14: while armed, the close event is emitted by exactly the step that
\* handles a silence chunk when the run of consecutive silence chunks of the
\* capture loop already equals max_silence_frames (so the run first exceeds
\* it); the run never exceeds it while armed, an armed period is ended only
\* by the close event, and the close step leaves speech_detected false, the
\* speech window empty, both silence counters 0 and the audio buffer empty.
ClosingExact ==
    [][/\ (lastEvent' = "close") <=>
              (speech_detected /\ lastChunk' = "silence" /\ silRun = max_silence_frames)
       /\ speech_detected => silRun <= max_silence_frames
       /\ lastChunk' = "speech" => silRun' = 0
       /\ (speech_detected /\ ~speech_detected') => lastEvent' = "close"
       /\ lastEvent' = "close" =>
              /\ ~speech_detected'
              /\ speech_frames' = <<>>
              /\ silence_frames' = 0
              /\ vad_silence_frames' = 0
              /\ audio_buffer' = <<>>]_vars

\* C14 witness: a close event has just been emitted for an utterance of two
\* or more speech chunks and the segmenter is idle again
ClosedAfterArmedPeriod ==
    /\ lastEvent = "close"
    /\ ~speech_detected
    /\ speech_frames = <<>>
    /\ audio_buffer = <<>>
    /\ Len(utterance.buf) >= 2

\* C15 (as claimed): at the close event the accumulated audio equals the
\* chunks passed to on_audio_chunk, holds nothing that was received before
\* the threshold was reached, and holds the speech chunks received since.
UtteranceFromArming ==
    lastEvent = "close" =>
        /\ utterance.buf = utterance.sent
        /\ utterance.preArm = 0
        /\ Len(utterance.buf) = utterance.armedSpeech

\* C15 (amended): at the close event the accumulated audio (audio_buffer and
\* the chunks passed to on_audio_chunk) is the in-order concatenation of the
\* speech-classified chunks received since the last close or start_listening,
\* those received before the threshold was reached included; a speech chunk
\* is appended at the end, a silence chunk is never buffered.
UtteranceIsSpeechSinceReset ==
    [][/\ lastEvent' = "close" =>
              /\ utterance'.buf = utterance'.sent
              /\ Len(utterance'.buf) = utterance'.preArm + utterance'.armedSpeech
       /\ lastChunk' = "speech" =>
              /\ Len(audio_buffer') = Len(audio_buffer) + 1
              /\ SubSeq(audio_buffer', 1, Len(audio_buffer)) = audio_buffer
              /\ sent' = Append(sent, audio_buffer'[Len(audio_buffer')])
              /\ audio_buffer' = sent'
       /\ (lastChunk' = "silence" /\ lastEvent' # "close") =>
              audio_buffer' = audio_buffer /\ sent' = sent]_vars

\* C15 witness: an utterance was closed that holds a chunk buffered before the
\* threshold was reached, followed by different chunks received after it
UtteranceWithPreArmAudio ==
    /\ lastEvent = "close"
    /\ utterance.preArm >= 1
    /\ utterance.armedSpeech >= 2
    /\ utterance.buf[1] # utterance.buf[Len(utterance.buf)]

\* C3: each branch receives exactly the source's chunks, in order, without
\* loss or duplication, and sees end-of-stream only after the last chunk.
FanOutDelivers ==
    \A b \in Branches :
        LET q == IF b = "stt" THEN stt_queue ELSE affect_queue
            all == Append(source, NoneItem)
        IN  /\ IsPrefix(received[b], source)
            /\ ended[b] => received[b] = source /\ q = <<>>
            /\ ~ended[b] => IsPrefix(received[b] \o q, all)
            /\ (distPc = "done" /\ ~ended[b]) => received[b] \o q = all

\* C3 witness: the transcription branch has finished a 2+ chunk stream while
\* the affect branch has not consumed anything yet
FanOutSkewedDone ==
    /\ Len(source) >= 2
    /\ ended["stt"]
    /\ received["stt"] = source
    /\ received["affect"] = <<>>

\* C16 (as claimed): once the distributor has been cancelled while the source
\* was still producing, every branch has received end-of-stream or has it
\* waiting in its queue, so its consumer cannot block forever.
CancelEndsBranches ==
    distPc = "cancelled" =>
        \A b \in Branches : ended[b] \/ SentinelsHeld(b) >= 1

\* C17: in every run of _stream_distributor that ends, normally or because
\* reading the source raised after the chunks of source, each branch is given
\* end-of-stream exactly once (never twice on the way), after exactly the
\* chunks read, in order.
EndOfStreamOnce ==
    \A b \in Branches :
        LET given == SentinelsHeld(b) + (IF ended[b] THEN 1 ELSE 0)
        IN  /\ given <= 1
            /\ distPc = "done" => given = 1
            /\ given = 1 =>
                   /\ received[b] \o BranchQueue(b) \in {source, Append(source, NoneItem)}
                   /\ ended[b] <=> BranchQueue(b) = <<>>
            /\ ended[b] => received[b] = source

\* C17 witness: reading the source raised after two or more chunks and both
\* branches have consumed those chunks and their end-of-stream
EndOfStreamAfterFailure ==
    /\ srcFails
    /\ Len(source) >= 2
    /\ distPc = "done"
    /\ \A b \in Branches : ended[b] /\ received[b] = source

\* C18 (as claimed): the number of chunks held in a branch queue stays below
\* a bound that does not grow with the source: here, below the length of the
\* longest source.
BranchQueueBounded ==
    \A b \in Branches : ChunksHeld(b) < MaxSrc

\* C4: providers 1..k-1 fail before yielding anything and provider k
\* succeeds: the invocation returns / delivers exactly provider k's output
\* and the aggregated error is never raised.
FailoverPre ==
    /\ Len(chain) >= 1
    /\ ~chain[Len(chain)].fail
    /\ \A i \in 1..(Len(chain) - 1) :
          chain[i].fail /\ (busMode = "stream" => chain[i].len = 0)

FailoverReachesLast ==
    FailoverPre =>
        /\ busPc # "raised"
        /\ IsPrefix(delivered, ProviderOutput(Len(chain)))
        /\ busPc = "returned" => delivered = ProviderOutput(Len(chain))

\* C4 witness: a streaming invocation over three providers has completed
\* with the last provider's two units after two failures
FailoverDone ==
    /\ FailoverPre
    /\ busMode = "stream"
    /\ Len(chain) = 3
    /\ busPc = "returned"
    /\ Len(delivered) = 2
    /\ Len(errors) = 2

\* C5: when all k providers fail, the invocation never returns normally and
\* ends with the aggregated error carrying exactly the k per-provider errors
\* in chain order.
AllProvidersFail == Len(chain) >= 1 /\ \A i \in 1..Len(chain) : chain[i].fail

ExhaustionAggregates ==
    AllProvidersFail =>
        /\ busPc # "returned"
        /\ busPc = "raised" => errors = [i \in 1..Len(chain) |-> i]

\* C5 witness: a three-provider chain exhausted in streaming mode
ExhaustionDone ==
    /\ AllProvidersFail
    /\ Len(chain) = 3
    /\ busMode = "stream"
    /\ busPc = "raised"

\* C11 (as claimed): when the generation chain is exhausted (the text stream
\* raises its aggregated error), consuming the returned audio stream never
\* ends normally with no audio delivered.
ExhaustionNeverSilent ==
    textFails => ~(synPc = "returned" /\ audio = <<>>)

\* C12 (as claimed): when a streaming invocation returns after at least one
\* provider failed, the failures are recorded, nothing was raised, and what
\* was delivered is the output of the succeeding provider only.
OnlySuccessorOutput ==
    (busMode = "stream" /\ busPc = "returned" /\ Len(errors) >= 1) =>
        /\ errors = [i \in 1..(busIdx - 1) |-> i]
        /\ delivered = ProviderOutput(busIdx)

\* C19: providers are attempted in chain order starting with the first, each
\* at most once; a provider is attempted only when its predecessor has failed
\* and that failure has been recorded; nothing is attempted after a return.
AttemptOrder ==
    [][/\ attempts = [i \in 1..Len(attempts) |-> i]
       /\ attempts' # attempts =>
              /\ attempts' = Append(attempts, Len(attempts) + 1)
              /\ busPc # "returned"
              /\ Len(errors) = Len(attempts)
              /\ \A i \in 1..Len(attempts) : errors[i] = i /\ chain[i].fail
       /\ busPc = "returned" =>
              /\ busPc' = "returned"
              /\ ~chain[attempts[Len(attempts)]].fail]_vars

\* C19 witness: the third provider of a chain was attempted, after the first
\* two, and completed the invocation
ThirdAttemptReturned ==
    /\ attempts = <<1, 2, 3>>
    /\ errors = <<1, 2>>
    /\ busPc = "returned"

\* the units that the providers recorded in errs yielded before they failed
RECURSIVE FailedOutput(_)
FailedOutput(errs) ==
    IF errs = <<>> THEN <<>>
    ELSE FailedOutput(SubSeq(errs, 1, Len(errs) - 1)) \o ProviderOutput(errs[Len(errs)])

\* C20: in a streaming invocation, what the consumer has been delivered is
\* what the failed providers yielded before failing, followed by the current
\* provider's output from its first unit up to its current position: after a
\* mid-stream failure the next provider starts at its first unit, not at the
\* failed provider's offset.
RestartsFromBeginning ==
    (busMode = "stream" /\ busPc \in {"stream", "returned"}) =>
        /\ busPos <= chain[busIdx].len
        /\ delivered = FailedOutput(errors) \o SubSeq(ProviderOutput(busIdx), 1, busPos)

\* C20 witness: the first provider failed after yielding two units and the
\* second provider's stream was delivered from its first unit to its end
MidStreamRestartDone ==
    /\ busMode = "stream"
    /\ busPc = "returned"
    /\ busIdx = 2
    /\ chain[1].fail /\ chain[1].len = 2
    /\ chain[2].len = 2
    /\ delivered = ProviderOutput(1) \o ProviderOutput(2)

OpenProviderNotInvoked ==
    \A k \in 1..Len(attempts) : ~chain[attempts[k]].open

\* C6: after failure_threshold consecutive record_failure calls with no
\* intervening record_success the breaker is OPEN, and every guarded call made
\* while the time since the last failure has not exceeded recovery_timeout_s
\* is short-circuited (never admitted).
OpensAfterThreshold ==
    [][/\ (/\ consecFailures' >= failure_threshold
           /\ ~RecoveryElapsed(last_failure_time', now'))
          => cbState' = "OPEN"
       /\ (/\ consecFailures >= failure_threshold
           /\ ~RecoveryElapsed(last_failure_time, now))
          => lastCall' # "admitted"]_vars

\* C7: in HALF_OPEN exactly one call is let through as the probe; no second
\* call is admitted while that probe has not recorded its outcome.
SingleHalfOpenProbe ==
    Cardinality({c \in Callers : callPc[c] = "probe"}) <= 1

\* C8: in HALF_OPEN the next recorded success closes the breaker and the
\* next recorded failure re-opens it immediately, for every failure_threshold.
HalfOpenOutcome ==
    [][/\ (cbState = "HALF_OPEN" /\ lastCall' = "succeeded") => cbState' = "CLOSED"
       /\ (cbState = "HALF_OPEN" /\ lastCall' = "failed") => cbState' = "OPEN"]_vars

\* C23: one wrapped call invokes func at most max_retries + 1 times; every
\* invocation before the current one failed and was followed by one wait; the
\* call returns with the result of its first successful attempt; it raises
\* only after max_retries + 1 failed invocations and max_retries waits (none
\* after the last failure), with the last attempt's exception.
RetryBounded ==
    /\ invocations <= max_retries + 1
    /\ waits <= max_retries
    /\ retryPc = "attempt" =>
           invocations = attempt /\ waits = attempt /\ failedAttempts = attempt
    /\ retryPc = "sleep" =>
           invocations = attempt + 1 /\ waits = attempt /\ attempt < max_retries
    /\ retryPc = "returned" =>
           /\ retResult = attempt
           /\ invocations = attempt + 1
           /\ failedAttempts = attempt
           /\ waits = attempt
    /\ retryPc = "raised" =>
           /\ retResult = NoAttempt
           /\ invocations = max_retries + 1
           /\ failedAttempts = max_retries + 1
           /\ waits = max_retries
           /\ last_exception = max_retries

\* C23 witness: a wrapped call with two retries has raised after three failed
\* invocations
RetriesExhausted ==
    /\ max_retries = 2
    /\ retryPc = "raised"
    /\ invocations = 3

\* C24 (as claimed): a wrapped call that failed on all its attempts has
\* raised the breaker's failure counter by at most one.
FailureCountedOnce ==
    retryPc = "raised" => failure_count <= countAtStart + 1

\* C25 (as claimed): whatever the interleaving of the guarded calls, the
\* breaker state changes only along CLOSED->OPEN, OPEN->HALF_OPEN (with the
\* recovery timeout elapsed), HALF_OPEN->CLOSED and HALF_OPEN->OPEN.
BreakerTransitions ==
    [][cbState' # cbState =>
          \/ cbState = "CLOSED" /\ cbState' = "OPEN"
          \/ /\ cbState = "OPEN" /\ cbState' = "HALF_OPEN"
             /\ RecoveryElapsed(last_failure_time, now)
          \/ cbState = "HALF_OPEN" /\ cbState' = "CLOSED"
          \/ cbState = "HALF_OPEN" /\ cbState' = "OPEN"]_vars

\* C9: with w the word count of the drained OMEGA-1 output, the fast path is
\* taken and no OMEGA-2 request is issued iff 1 <= w <= 25; OMEGA-2 is issued
\* iff w = 0 or w > 25.
TieringDecision ==
    LET w == WordCount(Join(quick_chunks)) IN
    /\ turnPc \in {"done_fast", "done_full"} =>
          /\ (turnPc = "done_fast") <=> (1 <= w /\ w <= 25)
          /\ (omega2Calls = 1) <=> (w = 0 \/ w > 25)
          /\ (omega2Calls = 0) <=> (turnPc = "done_fast")
          /\ turnPc = "done_fast" => ttsText = Join(quick_chunks)
    /\ turnPc \notin {"done_full"} => omega2Calls = 0

\* C9 witness: an empty (whitespace-only) OMEGA-1 result was escalated
TieringEmptyEscalated ==
    /\ turnPc = "done_full"
    /\ quick_chunks # <<>>
    /\ WordCount(Join(quick_chunks)) = 0
    /\ omega2Calls = 1

\* C10: an empty or whitespace-only final transcript ends the turn with the
\* fixed fallback text, a synthesis stream of that text, and no generation
\* request of either tier.
EmptyTranscriptFallback ==
    (turnPc # "transcribing" /\ WordCount(final_text) = 0) =>
        /\ turnPc \in {"await_rag", "await_affect", "done_fallback", "failed"}
        /\ turnPc = "done_fallback" =>
               retText = FallbackText /\ ttsText = FallbackText
        /\ omega1Calls = 0
        /\ omega2Calls = 0

\* C10 witness: a whitespace-only transcript was answered with the fallback
WhitespaceTranscriptDone ==
    /\ turnPc = "done_fallback"
    /\ final_text = <<" ">>
    /\ retText = FallbackText

\* C26: when the OMEGA-1 request is issued the conversation it carries already
\* ends with the turn's user message; an assistant message is appended only by
\* the step that ends the response stream, with the complete joined text, and
\* the conversation holds no assistant message while units are being produced.
MessageOrdering ==
    [][/\ omega1Req'.issued =>
              /\ conversation'[1] = Message(final_text', "user")
              /\ omega1Req'.conversation = <<Message(final_text', "user")>>
       /\ ~omega1Req'.issued => conversation' = <<>>
       /\ streamPc' = "open" =>
              \A k \in 1..Len(conversation') : conversation'[k].role # "assistant"
       /\ Len(conversation') > Len(conversation) /\ omega1Req.issued =>
              /\ streamPc = "open" /\ streamPc' = "ended"
              /\ full_response_text' = full_response_text
              /\ conversation' = Append(conversation,
                                        Message(Join(full_response_text), "assistant"))]_vars

\* C26 witness: the response stream of a turn ended after two units and the
\* assistant message follows the user message
AssistantStoredAfterStream ==
    /\ streamPc = "ended"
    /\ Len(full_response_text) = 2
    /\ Len(conversation) = 2
    /\ conversation[1].role = "user"
    /\ conversation[2] = Message(Join(full_response_text), "assistant")

\* C27 (as claimed): once a turn with a non-empty transcript has produced a
\* non-empty response on either path and its audio was consumed to the end,
\* the conversation holds the user message followed by one assistant message
\* with the response text.
TurnCompleteMessages ==
    /\ (turnPc = "done_fast" /\ audioDone) =>
           conversation = <<Message(final_text, "user"), Message(ttsText, "assistant")>>
    /\ (turnPc = "done_full" /\ streamPc = "ended" /\ Join(full_response_text) # <<>>) =>
           conversation = <<Message(final_text, "user"),
                            Message(Join(full_response_text), "assistant")>>

NoOrphanLookup ==
    turnPc = "failed" => kbState # "inflight"

\* C30: a generation request of either tier exists only after the text stream
\* ended, with the lookup (if any) resolved and the affect task resolved, and
\* it carries the final transcript, the lookup's result and the affect result.
JoinBeforeGeneration ==
    /\ (omega1Calls >= 1) <=> omega1Req.issued
    /\ (omega2Calls >= 1) <=> omega2Req.issued
    /\ \A req \in {omega1Req, omega2Req} :
          req.issued =>
             /\ turnPc \notin {"transcribing", "await_rag", "await_affect"}
             /\ kbState \in {"none", "resolved"}
             /\ affectState = "resolved"
             /\ emotional_state \in Affects
             /\ req.user_message = final_text
             /\ req.hotel_context = KbContext(kbState, kbQuery)
             /\ kbCalls = 1 => req.hotel_context = KbResult(kbQuery)
             /\ req.emotional_state = emotional_state

\* C30 witness: an OMEGA-1 request was issued with the result of a lookup
\* deferred to the end of a short transcript and with the affect result
JoinedRequestIssued ==
    /\ omega1Req.issued
    /\ ~rag_triggered
    /\ omega1Req.hotel_context = KbResult(final_text)
    /\ omega1Req.emotional_state = "upset"

\* C31 (as claimed): every completed turn with a non-empty response has issued
\* exactly one interaction log command, on the fast path as on the OMEGA-2
\* path.
InteractionLogged ==
    /\ (turnPc = "done_fast" /\ audioDone /\ ttsText # <<>>) => logCalls = 1
    /\ (turnPc = "done_full" /\ streamPc = "ended" /\ Join(full_response_text) # <<>>) =>
           logCalls = 1

\* C39 (as claimed): a turn that failed holds the conversation it started
\* with, which is the empty one.
FailedTurnLeavesSession ==
    turnPc = "failed" => conversation = <<>>

\* C37: a guarded call rejected because the breaker is OPEN leaves
\* failure_count, last_failure_time and the breaker state as they were, so
\* the time at which the recovery timeout elapses is not moved by it.
RejectedCallInert ==
    [][lastCall' = "rejected" =>
          /\ failure_count' = failure_count
          /\ last_failure_time' = last_failure_time
          /\ cbState' = cbState
          /\ cbState' = "OPEN"
          /\ \A t \in 0..MaxTime :
                RecoveryElapsed(last_failure_time', t) = RecoveryElapsed(last_failure_time, t)]_vars

\* C37 witness: a call was rejected some time after the failure that opened
\* the breaker, and the failure time is still that of the failure
RejectedAfterDelay ==
    /\ lastCall = "rejected"
    /\ cbState = "OPEN"
    /\ failure_count >= failure_threshold
    /\ last_failure_time # NoTime
    /\ now > last_failure_time

\* C36 (as claimed): a capture session emits the close event only after the
\* speech threshold has been reached within that session, whatever state the
\* segmenter was in when the previous session was stopped.
RestartStartsIdle ==
    [][lastEvent' = "close" => armedInSession]_vars

\* C38 (as claimed): with a generation stream that does not fail, a synthesis
\* provider tried after another one failed has accumulated the complete
\* response text when it synthesizes, and the audio delivered when the
\* stream returns covers the whole response.
FailoverResynthesizesWholeText ==
    LET whole == [j \in 1..textLen |-> TextUnit(j)] IN
    /\ (synPc = "speak" /\ ~textFails /\ synIdx >= 2) => full_text = whole
    /\ (synPc = "returned" /\ ~textFails /\ textLen >= 1) =>
           /\ Len(audio) = 1
           /\ audio[1][2] = whole

\* C34: the output stream has one unit per handled input unit, in order; a
\* plain text unit is passed through unchanged; a tool call whose handling
\* does not raise is replaced by the text of the matching tool, and by the
\* fixed 'cannot do that' text when the tool name is unknown.
ToolInterception ==
    /\ Len(full_response_text) = unitPos
    /\ streamPc = "ended" => unitPos = Len(llm_units)
    /\ \A i \in 1..unitPos :
          LET u == llm_units[i]
              out == full_response_text[i]
          IN  /\ ~u.tagged => out = u.text
              /\ (u.tagged /\ u.parses /\ u.save # "raises") =>
                    /\ u.name = "make_booking" => out = BookingText
                    /\ u.name = "check_in_info" => out = CheckInText
                    /\ u.name = "contact_support" => out = SupportText
                    /\ u.name \notin {"make_booking", "check_in_info", "contact_support"} =>
                          out = CannotText

\* C34 witness: a stream of an unknown tool call followed by a text unit was
\* handled to its end
UnknownToolThenText ==
    /\ streamPc = "ended"
    /\ llm_units = <<CallUnit(TRUE, "open_door", "none"), PlainUnit(<<"a">>)>>
    /\ full_response_text = <<CannotText, <<"a">>>>

\* C35: a tool call whose parsing or execution raises yields exactly the
\* apology text in its place; the stream is never aborted by it, and when it
\* has ended every unit, those after the failure included, was handled and
\* delivered.
ToolFailureLocal ==
    /\ streamPc \in {"open", "ended"}
    /\ \A i \in 1..unitPos :
          LET u == llm_units[i] IN
          (u.tagged /\ (~u.parses \/ (u.name = "make_booking" /\ u.save = "raises"))) =>
              /\ Len(full_response_text) >= i
              /\ full_response_text[i] = ApologyText
    /\ (streamPc = "open" /\ unitPos < Len(llm_units)) => ENABLED ToolUnit
    /\ streamPc = "ended" => Len(full_response_text) = Len(llm_units)

\* C35 witness: a booking whose persistence raised was followed by a tool
\* call that was still executed, and the stream ended
FailedToolThenDelivered ==
    /\ streamPc = "ended"
    /\ llm_units = <<CallUnit(TRUE, "make_booking", "raises"),
                     CallUnit(TRUE, "check_in_info", "none")>>
    /\ full_response_text = <<ApologyText, CheckInText>>

\* C40 (as claimed): a make_booking call yields the confirmation text only
\* if the repository port reported the booking saved, and last_booking is
\* set only if some booking was saved.
BookingConfirmedOnlyIfSaved ==
    /\ \A i \in 1..unitPos :
          LET u == llm_units[i] IN
          (u.tagged /\ u.parses /\ u.name = "make_booking"
             /\ full_response_text[i] = BookingText) => u.save = "saved"
    /\ last_booking => bookingsSaved >= 1

\* C33 (as claimed): an invocation in progress is never blocked: while the
\* invoker is between its entry and its return or its aggregated error, one
\* of its steps is possible, also when the provider it waits for neither
\* yields nor fails.
InvocationNeverBlocks ==
    busPc \in {"next", "stream"} => ENABLED BusNext

\* C32: in the interactive loop at most one turn is in progress; while a
\* turn is in progress the microphone is not listening and no later turn has
\* begun; the messages in the conversation are in the order of their turns
\* (every mutation of turn N precedes every mutation of turn N+1).
TurnsSerialized ==
    /\ Cardinality(TurnsInProgress) <= 1
    /\ TurnsInProgress # {} => ~is_listening
    /\ \A n \in TurnsInProgress :
          /\ n = turnsStarted
          /\ \A m \in 1..MaxTurns : m > n => turnPhase[m] = "none"
          /\ \A m \in 1..(n - 1) : turnPhase[m] = "ended"
    /\ \A i, j \in 1..Len(conversation) :
          i < j => conversation[i].content[1] < conversation[j].content[1]
    /\ \A i \in 1..Len(conversation) : conversation[i].content[1] <= turnsStarted

\* C32 witness: two turns have ended, each stored its user message, and the
\* microphone is listening again
TwoTurnsEnded ==
    /\ turnPhase[1] = "ended"
    /\ turnPhase[2] = "ended"
    /\ conversation = <<Message(<<1>>, "user"), Message(<<2>>, "user")>>
    /\ is_listening
    /\ loopPc = "poll"

====
